---- MODULE Spec2Model ----
(***************************************************************************)
(* Model of the DevLog Analyzer ingestor (src/ingest.py): the command      *)
(* main() -> ingest_full(repo), its line parser, the commit classifier     *)
(* TAG_RE, the pending-commit accumulator, and the statements it sends to  *)
(* the store through one SQLAlchemy connection.                            *)
(*                                                                         *)
(* Text is modelled as sequences of one-character strings, so that         *)
(* str.split, str.isdigit, int() and the regular expression are computed   *)
(* character by character, the way the code computes them.                 *)
(***************************************************************************)
EXTENDS Integers, Sequences, FiniteSets, TLC

(* ------------------------------------------------------------------ *)
(* Bounds of the model                                                *)
(* ------------------------------------------------------------------ *)

\* longest line stream the log reader delivers in one run
MaxLines == 3

\* longest subject, in words, the classifier specification draws
MaxWords == 2

(* ------------------------------------------------------------------ *)
(* Program constants                                                  *)
(* ------------------------------------------------------------------ *)

\* line.split("\t", 4)
MaxSplit == 4

\* len(parts) == 5 and len(parts[0]) == 40
HeaderParts == 5

HashLen == 40

\* len(parts) == 3 and current is not None
NumstatParts == 3

(* ------------------------------------------------------------------ *)
(* Characters and strings                                             *)
(* ------------------------------------------------------------------ *)

TAB == "\t"

\* stands for U+00B2 SUPERSCRIPT TWO: a character for which str.isdigit()
\* is True and int() raises ValueError
Sup2 == "sup2"

LowerLetters == <<"a", "b", "c", "d", "e", "f", "g", "h", "i", "j", "k", "l", "m", "n", "o", "p", "q", "r", "s", "t", "u", "v", "w", "x", "y", "z">>

UpperLetters == <<"A", "B", "C", "D", "E", "F", "G", "H", "I", "J", "K", "L", "M", "N", "O", "P", "Q", "R", "S", "T", "U", "V", "W", "X", "Y", "Z">>

DecimalDigits == <<"0", "1", "2", "3", "4", "5", "6", "7", "8", "9">>

Range(seq) == {seq[i] : i \in 1..Len(seq)}

IndexOf(seq, x) == CHOOSE i \in 1..Len(seq) : seq[i] = x

\* Python's None / an optional value
None == <<>>

Some(x) == <<x>>

UpperSet == Range(UpperLetters)

DecimalSet == Range(DecimalDigits)

\* the characters with the Unicode digit property
DigitSet == DecimalSet \cup {Sup2}

\* the characters the regular expression's \w matches
WordChars == Range(LowerLetters) \cup UpperSet \cup DigitSet \cup {"_"}

\* str.lower() of one character
Lower(c) == IF c \in UpperSet THEN LowerLetters[IndexOf(UpperLetters, c)] ELSE c

\* the regular expression's \w
IsWordChar(c) == c \in WordChars

\* [c] * n
Rep(c, n) == [i \in 1..n |-> c]

RECURSIVE Join(_, _)
\* sep.join(strs)
Join(strs, sep) ==
  IF Len(strs) = 0 THEN <<>>
  ELSE IF Len(strs) = 1 THEN strs[1]
  ELSE strs[1] \o sep \o Join(Tail(strs), sep)

(* ------------------------------------------------------------------ *)
(* str.split("\t", maxsplit)                                          *)
(* ------------------------------------------------------------------ *)

RECURSIVE SplitTab(_, _)
SplitTab(s, maxsplit) ==
  IF maxsplit = 0 \/ \A k \in 1..Len(s) : s[k] # TAB THEN <<s>>
  ELSE LET i == CHOOSE i \in 1..Len(s) : s[i] = TAB /\ \A j \in 1..(i - 1) : s[j] # TAB
       IN  <<SubSeq(s, 1, i - 1)>> \o SplitTab(SubSeq(s, i + 1, Len(s)), maxsplit - 1)

(* ------------------------------------------------------------------ *)
(* str.isdigit() and int()                                            *)
(* ------------------------------------------------------------------ *)

\* a_raw.isdigit(): non-empty and every character has the Unicode digit
\* property (decimal digits, and also superscripts and the like)
IsDigit(s) == Len(s) > 0 /\ \A i \in 1..Len(s) : s[i] \in DigitSet

\* int(s) succeeds on a digit string only if every character is a decimal
IntParses(s) == \A i \in 1..Len(s) : s[i] \in DecimalSet

RECURSIVE IntValue(_)
IntValue(s) ==
  IF Len(s) = 0 THEN 0
  ELSE 10 * IntValue(SubSeq(s, 1, Len(s) - 1)) + (IndexOf(DecimalDigits, s[Len(s)]) - 1)

\* int(x) if x.isdigit() else 0 ; raises ValueError when int() rejects
CountRaises(s) == IsDigit(s) /\ ~IntParses(s)

CountValue(s) == IF IsDigit(s) THEN IntValue(s) ELSE 0

(* ------------------------------------------------------------------ *)
(* The classifier: TAG_RE.finditer(message), group(1).lower()         *)
(* ------------------------------------------------------------------ *)

\* the alternatives of TAG_RE in the order the regex tries them;
\* regress(?:ion)? is greedy: "regression" is tried before "regress"
Keywords == <<
  <<"f", "i", "x">>,
  <<"b", "u", "g">>,
  <<"e", "r", "r", "o", "r">>,
  <<"f", "a", "i", "l">>,
  <<"f", "a", "i", "l", "e", "d">>,
  <<"f", "a", "i", "l", "u", "r", "e">>,
  <<"e", "x", "c", "e", "p", "t", "i", "o", "n">>,
  <<"p", "a", "n", "i", "c">>,
  <<"h", "o", "t", "f", "i", "x">>,
  <<"i", "s", "s", "u", "e">>,
  <<"r", "e", "v", "e", "r", "t">>,
  <<"p", "a", "t", "c", "h">>,
  <<"d", "e", "f", "e", "c", "t">>,
  <<"f", "a", "t", "a", "l">>,
  <<"c", "r", "a", "s", "h">>,
  <<"b", "r", "o", "k", "e", "n">>,
  <<"r", "e", "g", "r", "e", "s", "s", "i", "o", "n">>,
  <<"r", "e", "g", "r", "e", "s", "s">> >>

\* is character k of s a word character (False outside the string)
WordAt(s, k) == k \in 1..Len(s) /\ IsWordChar(s[k])

\* \b between character p and character p + 1
WordBoundary(s, p) == WordAt(s, p) # WordAt(s, p + 1)

\* the pattern without its closing \b
AltMatchesNoBoundary(s, i, kw) ==
  /\ i + Len(kw) - 1 <= Len(s)
  /\ \A j \in 1..Len(kw) : Lower(s[i + j - 1]) = kw[j]

\* alternative kw matches at character i, ignoring case, and \b follows it
AltMatches(s, i, kw) ==
  /\ i + Len(kw) - 1 <= Len(s)
  /\ \A j \in 1..Len(kw) : Lower(s[i + j - 1]) = kw[j]
  /\ WordBoundary(s, i + Len(kw) - 1)

\* the match of TAG_RE starting at character i: the lower-cased group 1
MatchAt(s, i) ==
  IF ~WordBoundary(s, i - 1) THEN None
  ELSE LET hits == {n \in 1..Len(Keywords) : AltMatches(s, i, Keywords[n])}
       IN  IF hits = {} THEN None
           ELSE Some(Keywords[CHOOSE n \in hits : \A m \in hits : n <= m])

RECURSIVE FindIter(_, _)
\* the matches of TAG_RE.finditer(s) from character i on, left to right
FindIter(s, i) ==
  IF i > Len(s) THEN <<>>
  ELSE LET m == MatchAt(s, i)
       IN  IF m = None THEN FindIter(s, i + 1)
           ELSE <<m[1]>> \o FindIter(s, i + Len(m[1]))

\* tags = {m.group(1).lower() for m in TAG_RE.finditer(message)}
Tags(message) == Range(FindIter(message, 1))

\* Python's str < str on lower-case words
RECURSIVE StrLess(_, _)
StrLess(a, b) ==
  IF Len(b) = 0 THEN FALSE
  ELSE IF Len(a) = 0 THEN TRUE
  ELSE IF a[1] = b[1] THEN StrLess(Tail(a), Tail(b))
  ELSE IndexOf(LowerLetters, a[1]) < IndexOf(LowerLetters, b[1])

RECURSIVE SortedDescending(_)
\* sorted(tags, reverse=True)
SortedDescending(tags) ==
  IF tags = {} THEN <<>>
  ELSE LET most == CHOOSE t \in tags : \A u \in tags \ {t} : StrLess(u, t)
       IN  <<most>> \o SortedDescending(tags \ {most})

RECURSIVE Sorted(_)
\* sorted(tags)
Sorted(tags) ==
  IF tags = {} THEN <<>>
  ELSE LET least == CHOOSE t \in tags : \A u \in tags \ {t} : StrLess(t, u)
       IN  <<least>> \o Sorted(tags \ {least})

\* a faulty flag that is set whatever the tags
IsFixAlways(tags) == 1

\* 1 if tags else 0
IsFix(tags) == IF tags # {} THEN 1 ELSE 0

\* ",".join(sorted(tags)) if tags else None
ErrorTags(tags) == IF tags # {} THEN Some(Join(Sorted(tags), <<",">>)) ELSE None

(* ------------------------------------------------------------------ *)
(* The store: tables commits and commit_files                         *)
(* ------------------------------------------------------------------ *)

EmptyStore == [commits |-> {}, commit_files |-> {}]

\* commits.hash is the primary key
SameCommitKey(r, q) == r.hash = q.hash

\* commit_files is unique on (commit_hash, file_path)
SameFileKey(r, q) == r.commit_hash = q.commit_hash /\ r.file_path = q.file_path

\* a faulty flush() whose first statement writes nothing
UpsertNothing(store, row) == store

\* a faulty upsert: ON DUPLICATE KEY UPDATE additions = additions + VALUES(additions)
UpsertCommitAccumulate(store, row) ==
  LET old == {r \in store.commits : SameCommitKey(r, row)}
  IN  [store EXCEPT !.commits = (@ \ old) \cup
         {IF old = {} THEN row
          ELSE [row EXCEPT !.additions = @ + (CHOOSE r \in old : TRUE).additions]}]

\* UPSERT_COMMIT: INSERT ... ON DUPLICATE KEY UPDATE every other column
UpsertCommit(store, row) ==
  [store EXCEPT !.commits = {r \in @ : ~SameCommitKey(r, row)} \cup {row}]

\* a faulty delete that removes nothing
DeleteNothing(store, commit_hash) == store

\* DELETE_FILES_FOR_COMMIT
DeleteFilesForCommit(store, commit_hash) ==
  [store EXCEPT !.commit_files = {r \in @ : r.commit_hash # commit_hash}]

\* INSERT_FILE_ROW: INSERT ... ON DUPLICATE KEY UPDATE additions, deletions
InsertFileRow(store, row) ==
  [store EXCEPT !.commit_files = {r \in @ : ~SameFileKey(r, row)} \cup {row}]

\* file_data = {"commit_hash": ..., "file_path": ..., "additions": ..., "deletions": ...}
FileData(t) == [commit_hash |-> t[1], file_path |-> t[2], additions |-> t[3], deletions |-> t[4]]

\* a connection in autocommit mode: every statement is durable at once
AfterStatementAutocommit(durable, working) == working

\* What is durable after one conn.execute: the connection begins a
\* transaction on its first statement and nothing is committed until
\* conn.commit() is called
AfterStatement(durable, working) == durable

\* What the connection holds after an exception leaves the with block:
\* the open transaction is rolled back
Rollback(durable, working) == durable

\* a run that never calls conn.commit()
CommitForgotten(durable, working) == durable

\* conn.commit()
CommitTx(durable, working) == working

(* ------------------------------------------------------------------ *)
(* The log stream                                                     *)
(* ------------------------------------------------------------------ *)

HashA == Rep("a", HashLen)

HashB == Rep("b", HashLen)

HashC == Rep("c", HashLen)

Alice == <<"A", "l", "i", "c", "e">>

AliceMail == <<"a", "l", "i", "c", "e", "@", "x", ".", "c", "o", "m">>

Jan1 == <<"2", "0", "2", "4", "-", "0", "1", "-", "0", "1", "T", "0", "0", ":", "0", "0", ":", "0", "0", "+", "0", "0", ":", "0", "0">>

Bob == <<"B", "o", "b">>

BobMail == <<"b", "o", "b", "@", "x", ".", "c", "o", "m">>

Jan2 == <<"2", "0", "2", "4", "-", "0", "1", "-", "0", "2", "T", "0", "0", ":", "0", "0", ":", "0", "0", "+", "0", "0", ":", "0", "0">>

FixBugInParser == <<"F", "i", "x", " ", "b", "u", "g", " ", "i", "n", " ", "p", "a", "r", "s", "e", "r">>

AddFeature == <<"A", "d", "d", " ", "f", "e", "a", "t", "u", "r", "e">>

FixedTheBug == <<"F", "i", "x", "e", "d", " ", "t", "h", "e", " ", "b", "u", "g">>

Prefix == <<"p", "r", "e", "f", "i", "x">>

ParserPy == <<"p", "a", "r", "s", "e", "r", ".", "p", "y">>

ATxt == <<"a", ".", "t", "x", "t">>

BTxt == <<"b", ".", "t", "x", "t">>

CTxt == <<"c", ".", "t", "x", "t">>

\* one line of `git log --numstat --pretty=format:%H%x09%an%x09%ae%x09%ad%x09%s`
TabLine(fields) == Join(fields, <<TAB>>)

\* aaaa...a \t Alice \t alice@x.com \t 2024-01-01T00:00:00+00:00 \t Fix bug in parser
HeaderA == TabLine(<<HashA, Alice, AliceMail, Jan1, FixBugInParser>>)

HeaderB == TabLine(<<HashB, Bob, BobMail, Jan2, AddFeature>>)

\* a header whose subject holds a tab: six tab-separated fields
HeaderTabSubject == TabLine(<<HashB, Bob, BobMail, Jan2, <<"F", "i", "x">>, <<"u", "p">>>>)

\* five fields, the first one 39 characters long
ShortHashLine == TabLine(<<Rep("a", HashLen - 1), Alice, AliceMail, Jan1, FixBugInParser>>)

\* 3 \t 1 \t parser.py
NumstatParser == TabLine(<<<<"3">>, <<"1">>, ParserPy>>)

\* - \t - \t a.txt   (git's marker for a binary file)
NumstatBinary == TabLine(<<<<"-">>, <<"-">>, ATxt>>)

\* - \t U+00B2 \t b.txt
NumstatSuperscript == TabLine(<<<<"-">>, <<Sup2>>, BTxt>>)

\* three fields, the first one 40 characters long
NumstatLongField == TabLine(<<HashA, <<"2">>, ParserPy>>)

BlankLine == <<>>

\* the lines the log reader may deliver
Lines == {HeaderA, HeaderB, HeaderTabSubject, ShortHashLine, NumstatParser,
          NumstatBinary, NumstatSuperscript, NumstatLongField, BlankLine}

(* ------------------------------------------------------------------ *)
(* The parser's predicates on the split line                          *)
(* ------------------------------------------------------------------ *)

\* line.split("\t"): no limit on the number of splits
PartsUnlimited(line) == SplitTab(line, Len(line))

\* parts = line.split("\t", 4)
Parts(line) == SplitTab(line, MaxSplit)

\* a faulty header test that does not look at the hash
IsHeaderAnyHash(p) == Len(p) = HeaderParts

\* if len(parts) == 5 and len(parts[0]) == 40
IsHeader(p) == Len(p) = HeaderParts /\ Len(p[1]) = HashLen

\* if len(parts) == 3 and current is not None
IsNumstat(p, cur) == Len(p) = NumstatParts /\ cur # None

\* current = {"hash": c_hash, ..., "additions": 0, ..., "error_tags": None}
NewCommit(p) ==
  [hash |-> p[1], author_name |-> p[2], author_email |-> p[3], authored_at |-> p[4],
   message |-> p[5], additions |-> 0, deletions |-> 0, files_changed |-> 0,
   is_fix |-> 0, error_tags |-> None]

\* the numstat branch's update of the pending commit
AddFile(cur, p) ==
  [cur EXCEPT !.additions = @ + CountValue(p[1]),
              !.deletions = @ + CountValue(p[2]),
              !.files_changed = @ + 1]

\* file_rows.append((current["hash"], path, a, d))
FileTuple(cur, p) == <<cur.hash, p[3], CountValue(p[1]), CountValue(p[2])>>

\* flush(): the classifier's result is stored into the pending commit
Classified(cur) ==
  LET tags == Tags(cur.message)
  IN  [cur EXCEPT !.is_fix = IsFix(tags), !.error_tags = ErrorTags(tags)]

(* ------------------------------------------------------------------ *)
(* Stores an earlier run over another history may have left           *)
(* ------------------------------------------------------------------ *)

SeedCommitA ==
  [hash |-> HashA, author_name |-> Alice, author_email |-> AliceMail, authored_at |-> Jan1,
   message |-> FixBugInParser, additions |-> 3, deletions |-> 1, files_changed |-> 2,
   is_fix |-> IsFix(Tags(FixBugInParser)), error_tags |-> ErrorTags(Tags(FixBugInParser))]

SeedCommitC ==
  [hash |-> HashC, author_name |-> Bob, author_email |-> BobMail, authored_at |-> Jan2,
   message |-> AddFeature, additions |-> 1, deletions |-> 0, files_changed |-> 1,
   is_fix |-> IsFix(Tags(AddFeature)), error_tags |-> ErrorTags(Tags(AddFeature))]

SeededStore ==
  [commits |-> {SeedCommitA, SeedCommitC},
   commit_files |-> {FileData(<<HashA, ATxt, 1, 1>>), FileData(<<HashA, BTxt, 2, 0>>),
                     FileData(<<HashC, CTxt, 1, 0>>)}]

InitialStores == {EmptyStore, SeededStore}

(* ------------------------------------------------------------------ *)
(* State                                                              *)
(* ------------------------------------------------------------------ *)

VARIABLES
  pc,               \* where the command is: main, get_engine, ensure_schema, popen,
                    \* loop, upsert, delete, insert, commit, wait, exited
  run,              \* 1 for the first invocation of the command, 2 for the second
  stream,           \* the lines git writes (the same for both invocations)
  pos,              \* how many lines of stream this run has read
  parts,            \* the local `parts` of the line being processed
  caller,           \* the call site of the flush() in progress: "header" or "eof"
  idx,              \* position of `for ... in file_rows` inside flush()
  current,          \* the pending commit, or None
  file_rows,        \* the pending commit's file-row buffer
  headers_seen, commits_written, files_written,
  db,               \* the durable (committed) contents of the store
  tx,               \* the store as the ingestor's connection sees it
  schema_ready,     \* ensure_schema has completed on this store
  exit_status,      \* the command's exit status, None while it runs
  outcome,          \* how the run ended
  ret,              \* git's exit code, proc.wait()
  db0,              \* db when this run began
  snap,             \* db when the first run ended
  flushed,          \* the flushes this run has completed, in order
  seen              \* what the dashboard's last query read, None before it

vars == <<pc, run, stream, pos, parts, caller, idx, current, file_rows, headers_seen,
          commits_written, files_written, db, tx, schema_ready, exit_status, outcome,
          ret, db0, snap, flushed, seen>>

parser == <<parts, caller, idx, current, file_rows, headers_seen, commits_written,
            files_written, flushed>>

store == <<db, tx>>

input == <<run, stream, pos>>

\* exit codes git may return
GitExitCodes == {0, 128}

Init ==
  /\ pc = "main"
  /\ run = 1
  /\ stream = <<>>
  /\ pos = 0
  /\ parts = <<>>
  /\ caller = "none"
  /\ idx = 0
  /\ current = None
  /\ file_rows = <<>>
  /\ headers_seen = 0
  /\ commits_written = 0
  /\ files_written = 0
  /\ db \in InitialStores
  /\ tx = db
  /\ schema_ready = (db # EmptyStore)
  /\ exit_status = None
  /\ outcome = "running"
  /\ ret = None
  /\ db0 = db
  /\ snap = None
  /\ flushed = <<>>
  /\ seen = None

(* ------------------------------------------------------------------ *)
(* main() and the setup of ingest_full                                *)
(* ------------------------------------------------------------------ *)

\* raise SystemExit("..."): not an Exception, main() does not catch it;
\* the interpreter prints the message and exits with status 1
SystemExitStatus == 1

\* main() catches ValueError and Exception, prints, and returns: status 0
CaughtStatus == 0

\* the run ends with `why`; an open transaction is rolled back
Abort(why, status) ==
  /\ pc' = "exited"
  /\ outcome' = why
  /\ exit_status' = Some(status)
  /\ tx' = Rollback(db, tx)
  /\ db' = db

\* if not (repo / ".git").exists(): raise SystemExit
CheckRepo(is_repo) ==
  /\ pc = "main"
  /\ IF is_repo
       THEN pc' = "get_engine" /\ UNCHANGED <<outcome, exit_status, store>>
       ELSE Abort("not_a_repo", SystemExitStatus)
  /\ UNCHANGED <<input, parser, schema_ready, ret, db0, snap>>
  /\ UNCHANGED seen

\* a faulty setup that never calls ensure_schema
GetEngineSkipsSchema(has_url) ==
  /\ pc = "get_engine"
  /\ IF has_url
       THEN pc' = "popen" /\ UNCHANGED <<outcome, exit_status, store>>
       ELSE Abort("no_db_url", CaughtStatus)
  /\ UNCHANGED <<input, parser, schema_ready, ret, db0, snap>>
  /\ UNCHANGED seen

\* engine = get_engine(): raise ValueError when DB_URL is not set
GetEngine(has_url) ==
  /\ pc = "get_engine"
  /\ IF has_url
       THEN pc' = "ensure_schema" /\ UNCHANGED <<outcome, exit_status, store>>
       ELSE Abort("no_db_url", CaughtStatus)
  /\ UNCHANGED <<input, parser, schema_ready, ret, db0, snap>>
  /\ UNCHANGED seen

\* ensure_schema(engine): FileNotFoundError or a storage error, or the
\* schema exists afterwards
EnsureSchema(ok) ==
  /\ pc = "ensure_schema"
  /\ IF ok
       THEN pc' = "popen" /\ schema_ready' = TRUE /\ UNCHANGED <<outcome, exit_status, store>>
       ELSE Abort("schema_error", CaughtStatus) /\ UNCHANGED schema_ready
  /\ UNCHANGED <<input, parser, ret, db0, snap>>
  /\ UNCHANGED seen

\* proc = subprocess.Popen(["git", ...]): OSError when git cannot be
\* launched; then current = None, file_rows = [], the counters = 0 and
\* the connection is opened
Popen(ok) ==
  /\ pc = "popen"
  /\ IF ok
       THEN /\ pc' = "loop"
            /\ current' = None
            /\ file_rows' = <<>>
            /\ headers_seen' = 0
            /\ commits_written' = 0
            /\ files_written' = 0
            /\ tx' = db
            /\ UNCHANGED <<outcome, exit_status, db>>
       ELSE /\ Abort("launch_error", CaughtStatus)
            /\ UNCHANGED <<current, file_rows, headers_seen, commits_written, files_written>>
  /\ UNCHANGED <<input, parts, caller, idx, flushed, schema_ready, ret, db0, snap>>
  /\ UNCHANGED seen

(* ------------------------------------------------------------------ *)
(* The line loop                                                      *)
(* ------------------------------------------------------------------ *)

\* the body of `for raw in proc.stdout` for one line
ProcessLine(line) ==
  LET p == Parts(line) IN
  IF line = BlankLine THEN
    \* if not line: continue
    UNCHANGED <<pc, parser, store, outcome, exit_status>>
  ELSE IF IsHeader(p) /\ current = None THEN
    \* flush() returns at once; the new pending commit is created
    /\ current' = Some(NewCommit(p))
    /\ headers_seen' = headers_seen + 1
    /\ UNCHANGED <<pc, parts, caller, idx, file_rows, commits_written, files_written,
                   flushed, store, outcome, exit_status>>
  ELSE IF IsHeader(p) THEN
    \* flush() of the pending commit starts
    /\ pc' = "upsert"
    /\ parts' = p
    /\ caller' = "header"
    /\ UNCHANGED <<idx, current, file_rows, headers_seen, commits_written, files_written,
                   flushed, store, outcome, exit_status>>
  ELSE IF IsNumstat(p, current) /\ (CountRaises(p[1]) \/ CountRaises(p[2])) THEN
    \* int() raises ValueError; it leaves the with block and main() catches it
    /\ Abort("value_error", CaughtStatus)
    /\ UNCHANGED parser
  ELSE IF IsNumstat(p, current) THEN
    /\ current' = Some(AddFile(current[1], p))
    /\ file_rows' = Append(file_rows, FileTuple(current[1], p))
    /\ UNCHANGED <<pc, parts, caller, idx, headers_seen, commits_written, files_written,
                   flushed, store, outcome, exit_status>>
  ELSE
    \* neither shape: the line is skipped
    UNCHANGED <<pc, parser, store, outcome, exit_status>>

\* git writes one more line and the loop processes it
ReadLine ==
  /\ pc = "loop"
  /\ IF run = 1
       THEN /\ Len(stream) < MaxLines
            /\ \E line \in Lines : stream' = Append(stream, line) /\ ProcessLine(line)
       ELSE /\ pos < Len(stream)
            /\ stream' = stream
            /\ ProcessLine(stream[pos + 1])
  /\ pos' = pos + 1
  /\ UNCHANGED <<run, schema_ready, ret, db0, snap>>
  /\ UNCHANGED seen

\* a faulty end of the loop that goes to conn.commit() without flush()
EndOfInputNoFlush ==
  /\ pc = "loop"
  /\ run = 2 => pos = Len(stream)
  /\ pc' = "commit"
  /\ UNCHANGED <<input, parts, caller, idx, current, file_rows, headers_seen, commits_written,
                 files_written, flushed, store, schema_ready, exit_status, outcome, ret,
                 db0, snap>>
  /\ UNCHANGED seen

\* the stream ends: the final flush()
EndOfInput ==
  /\ pc = "loop"
  /\ run = 2 => pos = Len(stream)
  /\ IF current = None
       THEN pc' = "commit" /\ UNCHANGED caller
       ELSE pc' = "upsert" /\ caller' = "eof"
  /\ UNCHANGED <<input, parts, idx, current, file_rows, headers_seen, commits_written,
                 files_written, flushed, store, schema_ready, exit_status, outcome, ret,
                 db0, snap>>
  /\ UNCHANGED seen

(* ------------------------------------------------------------------ *)
(* flush(), statement by statement                                    *)
(* ------------------------------------------------------------------ *)

\* the tagging and conn.execute(text(UPSERT_COMMIT), current)
FlushUpsert ==
  /\ pc = "upsert"
  /\ current' = Some(Classified(current[1]))
  /\ tx' = UpsertCommit(tx, current'[1])
  /\ db' = AfterStatement(db, tx')
  /\ pc' = "delete"
  /\ UNCHANGED <<input, parts, caller, idx, file_rows, headers_seen, commits_written,
                 files_written, flushed, schema_ready, exit_status, outcome, ret, db0, snap>>
  /\ UNCHANGED seen

\* conn.execute(text(DELETE_FILES_FOR_COMMIT), {"commit_hash": current["hash"]})
FlushDelete ==
  /\ pc = "delete"
  /\ tx' = DeleteFilesForCommit(tx, current[1].hash)
  /\ db' = AfterStatement(db, tx')
  /\ pc' = "insert"
  /\ idx' = 1
  /\ UNCHANGED <<input, parts, caller, current, file_rows, headers_seen, commits_written,
                 files_written, flushed, schema_ready, exit_status, outcome, ret, db0, snap>>
  /\ UNCHANGED seen

\* one turn of `for ... in file_rows: conn.execute(text(INSERT_FILE_ROW), file_data)`
FlushInsert ==
  /\ pc = "insert"
  /\ idx <= Len(file_rows)
  /\ tx' = InsertFileRow(tx, FileData(file_rows[idx]))
  /\ db' = AfterStatement(db, tx')
  /\ idx' = idx + 1
  /\ UNCHANGED <<pc, input, parts, caller, current, file_rows, headers_seen,
                 commits_written, files_written, flushed, schema_ready, exit_status,
                 outcome, ret, db0, snap>>
  /\ UNCHANGED seen

\* a faulty flush() that returns without file_rows = []
FlushReturnKeepsRows ==
  /\ pc = "insert"
  /\ idx > Len(file_rows)
  /\ files_written' = files_written + Len(file_rows)
  /\ commits_written' = commits_written + 1
  /\ flushed' = Append(flushed, [commit |-> current[1], rows |-> file_rows])
  /\ file_rows' = file_rows
  /\ idx' = 0
  /\ IF caller = "header"
       THEN /\ current' = Some(NewCommit(parts))
            /\ headers_seen' = headers_seen + 1
            /\ pc' = "loop"
       ELSE /\ current' = None
            /\ headers_seen' = headers_seen
            /\ pc' = "commit"
  /\ caller' = "none"
  /\ parts' = <<>>
  /\ UNCHANGED <<input, store, schema_ready, exit_status, outcome, ret, db0, snap>>
  /\ UNCHANGED seen

\* the end of flush() and what its caller does next: the header branch
\* creates the new pending commit, the end of input goes on to conn.commit()
FlushReturn ==
  /\ pc = "insert"
  /\ idx > Len(file_rows)
  /\ files_written' = files_written + Len(file_rows)
  /\ commits_written' = commits_written + 1
  /\ flushed' = Append(flushed, [commit |-> current[1], rows |-> file_rows])
  /\ file_rows' = <<>>
  /\ idx' = 0
  /\ IF caller = "header"
       THEN /\ current' = Some(NewCommit(parts))
            /\ headers_seen' = headers_seen + 1
            /\ pc' = "loop"
       ELSE /\ current' = None
            /\ headers_seen' = headers_seen
            /\ pc' = "commit"
  /\ caller' = "none"
  /\ parts' = <<>>
  /\ UNCHANGED <<input, store, schema_ready, exit_status, outcome, ret, db0, snap>>
  /\ UNCHANGED seen

\* the statement about to run raises a storage error (constraint
\* violation, connection loss): the with block is left, main() catches it
StorageError ==
  /\ \/ pc \in {"upsert", "delete", "commit"}
     \/ pc = "insert" /\ idx <= Len(file_rows)
  /\ Abort("storage_error", CaughtStatus)
  /\ UNCHANGED <<input, parser, schema_ready, ret, db0, snap>>
  /\ UNCHANGED seen

\* conn.commit()
Commit ==
  /\ pc = "commit"
  /\ db' = CommitTx(db, tx)
  /\ tx' = db'
  /\ pc' = "wait"
  /\ UNCHANGED <<input, parser, schema_ready, exit_status, outcome, ret, db0, snap>>
  /\ UNCHANGED seen

\* ret = proc.wait(), the summary is printed, main() returns
Wait(code) ==
  /\ pc = "wait"
  /\ ret' = Some(code)
  /\ pc' = "exited"
  /\ outcome' = "completed"
  /\ exit_status' = Some(CaughtStatus)
  /\ snap' = IF run = 1 THEN Some(db) ELSE snap
  /\ UNCHANGED <<input, parser, store, schema_ready, db0>>
  /\ UNCHANGED seen

\* the command is invoked again on the same repository: git writes
\* the same stream
SecondRun ==
  /\ pc = "exited"
  /\ outcome = "completed"
  /\ run = 1
  /\ run' = 2
  /\ pc' = "main"
  /\ pos' = 0
  /\ outcome' = "running"
  /\ exit_status' = None
  /\ ret' = None
  /\ db0' = db
  /\ flushed' = <<>>
  /\ headers_seen' = 0
  /\ commits_written' = 0
  /\ files_written' = 0
  /\ UNCHANGED <<stream, parts, caller, idx, current, file_rows, store, schema_ready, snap>>
  /\ UNCHANGED seen

Next ==
  \/ \E is_repo \in BOOLEAN : CheckRepo(is_repo)
  \/ \E has_url \in BOOLEAN : GetEngine(has_url)
  \/ \E ok \in BOOLEAN : EnsureSchema(ok)
  \/ \E ok \in BOOLEAN : Popen(ok)
  \/ ReadLine
  \/ EndOfInput
  \/ FlushUpsert
  \/ FlushDelete
  \/ FlushInsert
  \/ FlushReturn
  \/ StorageError
  \/ Commit
  \/ \E code \in GitExitCodes : Wait(code)
  \/ SecondRun

Spec == Init /\ [][Next]_vars

(* ------------------------------------------------------------------ *)
(* A run of the classifier alone: one header with a drawn subject has *)
(* been read, the stream ends, and the final flush classifies it      *)
(* ------------------------------------------------------------------ *)

\* words the drawn subjects are made of
SubjectWords == {
  <<"f", "i", "x">>,
  <<"F", "i", "x", "e", "d">>,
  <<"p", "r", "e", "f", "i", "x">>,
  <<"B", "U", "G">>,
  <<"t", "h", "e">>,
  <<"F", "a", "i", "l", "e", "d">>,
  <<"f", "a", "i", "l">>,
  <<"r", "e", "g", "r", "e", "s", "s", "i", "o", "n">>,
  <<"r", "e", "g", "r", "e", "s", "s">>,
  <<"h", "o", "t", "-", "f", "i", "x", ":">>,
  <<"b", "u", "g", "_", "f", "i", "x">> }

Subjects ==
  {Join(ws, <<" ">>) : ws \in UNION {[1..n -> SubjectWords] : n \in 0..MaxWords}}
    \cup {FixBugInParser, AddFeature, FixedTheBug, Prefix}

InitClassify ==
  /\ pc = "loop"
  /\ run = 1
  /\ \E subject \in Subjects :
       /\ stream = <<TabLine(<<HashA, Alice, AliceMail, Jan1, subject>>)>>
       /\ current = Some(NewCommit(Parts(stream[1])))
  /\ pos = 1
  /\ parts = <<>>
  /\ caller = "none"
  /\ idx = 0
  /\ file_rows = <<>>
  /\ headers_seen = 1
  /\ commits_written = 0
  /\ files_written = 0
  /\ db = EmptyStore
  /\ tx = db
  /\ schema_ready = TRUE
  /\ exit_status = None
  /\ outcome = "running"
  /\ ret = None
  /\ db0 = db
  /\ snap = None
  /\ flushed = <<>>
  /\ seen = None

NextClassify ==
  \/ EndOfInput
  \/ FlushUpsert
  \/ FlushDelete
  \/ FlushReturn
  \/ Commit
  \/ \E code \in GitExitCodes : Wait(code)

SpecClassify == InitClassify /\ [][NextClassify]_vars

(* ------------------------------------------------------------------ *)
(* Vocabulary of the properties                                       *)
(* ------------------------------------------------------------------ *)

Hashes == {HashA, HashB, HashC}

CommitsOf(s, h) == {r \in s.commits : r.hash = h}

FilesOf(s, h) == {r \in s.commit_files : r.commit_hash = h}

RECURSIVE SumAdditions(_)
SumAdditions(rows) ==
  IF rows = {} THEN 0
  ELSE LET r == CHOOSE r \in rows : TRUE IN r.additions + SumAdditions(rows \ {r})

RECURSIVE SumDeletions(_)
SumDeletions(rows) ==
  IF rows = {} THEN 0
  ELSE LET r == CHOOSE r \in rows : TRUE IN r.deletions + SumDeletions(rows \ {r})

\* the positions of the tabs of a line, its number of tab-separated
\* fields and the length of its first field
TabsOf(line) == {i \in 1..Len(line) : line[i] = TAB}

FieldCount(line) == Cardinality(TabsOf(line)) + 1

FirstFieldLen(line) ==
  IF TabsOf(line) = {} THEN Len(line)
  ELSE (CHOOSE i \in TabsOf(line) : \A j \in TabsOf(line) : i <= j) - 1

\* field k of a line with exactly three fields
Field3(line, k) ==
  LET t1 == CHOOSE i \in TabsOf(line) : \A j \in TabsOf(line) : i <= j
      t2 == CHOOSE i \in TabsOf(line) : \A j \in TabsOf(line) : i >= j
  IN  IF k = 1 THEN SubSeq(line, 1, t1 - 1)
      ELSE IF k = 2 THEN SubSeq(line, t1 + 1, t2 - 1)
      ELSE SubSeq(line, t2 + 1, Len(line))

\* a non-empty string of the characters 0..9
PureDigits(s) == Len(s) > 0 /\ \A i \in 1..Len(s) : s[i] \in DecimalSet

\* the step reads one more line of the stream
ReadsLine == pc = "loop" /\ pos' = pos + 1

\* the line that step reads
LineRead == stream'[pos']

\* the step treats the line as a header: it starts the flush of the
\* pending commit or creates a new pending commit
TreatedAsHeader == (pc' = "upsert" /\ caller' = "header") \/ headers_seen' = headers_seen + 1

\* the flushes of this run that no later flush of the same hash replaced
LastFlushes ==
  {i \in 1..Len(flushed) :
     \A j \in 1..Len(flushed) : flushed[j].commit.hash = flushed[i].commit.hash => j <= i}

\* the file rows a flush leaves in the store: for each path the row of
\* its last numstat line
RowsOfFlush(f) ==
  {FileData(f.rows[k]) : k \in {k \in 1..Len(f.rows) :
     \A m \in 1..Len(f.rows) : f.rows[m][2] = f.rows[k][2] => m <= k}}

\* the maximal runs of word characters of a subject
WordsIn(s) ==
  {SubSeq(s, i, j) : <<i, j>> \in
     {ij \in (1..Len(s)) \X (1..Len(s)) :
        /\ ij[1] <= ij[2]
        /\ \A k \in ij[1]..ij[2] : IsWordChar(s[k])
        /\ ~WordAt(s, ij[1] - 1)
        /\ ~WordAt(s, ij[2] + 1)}}

LowerStr(w) == [k \in 1..Len(w) |-> Lower(w[k])]

\* the keywords a subject holds as whole words, ignoring case
WholeWordTags(s) == {LowerStr(w) : w \in WordsIn(s)} \cap Range(Keywords)

(* ------------------------------------------------------------------ *)
(* Properties                                                         *)
(* ------------------------------------------------------------------ *)

\* C1: when the command has run twice in succession on the same line
\* stream, both runs to completion, the commits and commit_files tables
\* after the second run are the tables after the first run, row for row.
C1_Idempotent == (run = 2 /\ outcome = "completed") => db = snap[1]

\* C1 witness: a second run that completed after flushing two commits
\* and a file row over the rows the first run had written
C1_Witness ==
  /\ run = 2
  /\ outcome = "completed"
  /\ commits_written >= 2
  /\ files_written >= 1
  /\ snap # None
  /\ \A i \in 1..Len(flushed) : flushed[i].commit.hash \in {r.hash : r \in snap[1].commits}

\* C2 as stated: after a completed run every commit row carries the sums
\* of the additions and deletions of its file rows and their number, also
\* when a path occurs on two numstat lines of one commit.
C2_Aggregation ==
  outcome = "completed" =>
    \A r \in db.commits :
      /\ r.additions = SumAdditions(FilesOf(db, r.hash))
      /\ r.deletions = SumDeletions(FilesOf(db, r.hash))
      /\ r.files_changed = Cardinality(FilesOf(db, r.hash))

\* C3 as stated: when a storage error ends the run, every flush that
\* completed before it is durable: its commit row and its file rows are in
\* the store (for the last flush of each hash).
C3_PriorFlushesDurable ==
  outcome = "storage_error" =>
    \A i \in LastFlushes :
      /\ flushed[i].commit \in db.commits
      /\ RowsOfFlush(flushed[i]) \subseteq db.commit_files

\* C4: in every durable state and for every hash, the store holds either
\* what it held for that hash when the run began (commit row and file
\* rows), or the commit row of a completed flush of that hash together
\* with exactly the file rows of that flush; never a commit row of a flush
\* with a missing or partial set of its file rows.
C4_FlushIsOneUnit ==
  \A h \in Hashes :
    \/ CommitsOf(db, h) = CommitsOf(db0, h) /\ FilesOf(db, h) = FilesOf(db0, h)
    \/ \E i \in 1..Len(flushed) :
         /\ flushed[i].commit.hash = h
         /\ CommitsOf(db, h) = {flushed[i].commit}
         /\ FilesOf(db, h) = RowsOfFlush(flushed[i])

\* C4 witness: a storage error at the second insert-file-row statement
\* of a flush, after the upsert, the delete and one insert of that flush
C4_Witness ==
  /\ outcome = "storage_error"
  /\ pc = "exited"
  /\ idx = 2
  /\ Len(file_rows) >= 2
  /\ current # None

\* C5 as stated: "prefix" yields no tag, "Fixed the bug" yields the tags
\* fix and bug (stored as "bug,fix") with is_fix = 1, "Add feature" yields
\* no tag with is_fix = 0.
C5_Stated ==
  \A r \in tx.commits :
    /\ r.message = Prefix => (r.error_tags = None /\ r.is_fix = 0)
    /\ r.message = FixedTheBug =>
         (r.error_tags = Some(<<"b", "u", "g", ",", "f", "i", "x">>) /\ r.is_fix = 1)
    /\ r.message = AddFeature => (r.error_tags = None /\ r.is_fix = 0)

\* C5 amended: the stored tags of a subject are exactly the keywords
\* that occur in it as whole words, compared without regard to case;
\* "prefix" yields no tag, "Fixed the bug" yields the single tag bug with
\* is_fix = 1 ("Fixed" is not the whole word "fix"), "Add feature" yields
\* no tag with is_fix = 0.
C5_WholeWordTags ==
  \A r \in tx.commits :
    /\ r.is_fix = (IF WholeWordTags(r.message) = {} THEN 0 ELSE 1)
    /\ r.error_tags = (IF WholeWordTags(r.message) = {} THEN None
                       ELSE Some(Join(Sorted(WholeWordTags(r.message)), <<",">>)))
    /\ r.message = Prefix => (r.error_tags = None /\ r.is_fix = 0)
    /\ r.message = FixedTheBug => (r.error_tags = Some(<<"b", "u", "g">>) /\ r.is_fix = 1)
    /\ r.message = AddFeature => (r.error_tags = None /\ r.is_fix = 0)

\* C5 witness: the commit with the subject "Fixed the bug" has been
\* classified and written
C5_Witness == \E r \in db.commits : r.message = FixedTheBug /\ r.is_fix = 1

\* C6 as stated: a non-blank line is treated as a header exactly when
\* it has exactly 5 tab-separated fields and a first field of 40
\* characters.
C6_Stated ==
  [][(ReadsLine /\ LineRead # BlankLine) =>
       (TreatedAsHeader <=>
          (FieldCount(LineRead) = HeaderParts /\ FirstFieldLen(LineRead) = HashLen))]_vars

\* C6 amended: a non-blank line is treated as a header exactly when it
\* has at least 5 tab-separated fields and a first field of 40 characters
\* (the fifth part keeps every further tab).
C6_HeaderIffAtLeastFive ==
  [][(ReadsLine /\ LineRead # BlankLine) =>
       (TreatedAsHeader <=>
          (FieldCount(LineRead) >= HeaderParts /\ FirstFieldLen(LineRead) = HashLen))]_vars

\* C6 witness: the line with six fields has been taken as a header; its
\* subject holds the tab
C6_Witness ==
  /\ current # None
  /\ current[1].hash = HashB
  /\ current[1].message = <<"F", "i", "x", TAB, "u", "p">>

\* C7 as stated: while a commit is pending, reading a line of exactly 3
\* tab-separated fields starts no flush, keeps the pending commit's hash
\* and appends one file row to its buffer.
C7_Stated ==
  [][(ReadsLine /\ current # None /\ FieldCount(LineRead) = NumstatParts) =>
       /\ pc' = "loop"
       /\ ~TreatedAsHeader
       /\ current' # None
       /\ current'[1].hash = current[1].hash
       /\ Len(file_rows') = Len(file_rows) + 1
       /\ file_rows'[Len(file_rows')][1] = current[1].hash]_vars

\* C8 as stated: while a commit is pending, a 3-field line with a count
\* field that is not a pure digit string raises no error; every such field
\* adds 0, files_changed grows by 1 and one file row is recorded.
C8_Stated ==
  [][(/\ ReadsLine
      /\ current # None
      /\ FieldCount(LineRead) = NumstatParts
      /\ (~PureDigits(Field3(LineRead, 1)) \/ ~PureDigits(Field3(LineRead, 2)))) =>
       /\ outcome' = outcome
       /\ pc' = "loop"
       /\ current' # None
       /\ ~PureDigits(Field3(LineRead, 1)) => current'[1].additions = current[1].additions
       /\ ~PureDigits(Field3(LineRead, 2)) => current'[1].deletions = current[1].deletions
       /\ current'[1].files_changed = current[1].files_changed + 1
       /\ Len(file_rows') = Len(file_rows) + 1]_vars

\* C9: after a completed run, a hash the run flushed has in
\* commit_files exactly one row per path of its last flush and no row for
\* any other path (none of the rows it had before lingers); the file rows
\* of every hash the run did not flush are the rows it had before.
C9_ReingestReplaces ==
  outcome = "completed" =>
    /\ \A i \in LastFlushes :
         LET h == flushed[i].commit.hash
             paths == {flushed[i].rows[k][2] : k \in 1..Len(flushed[i].rows)}
         IN  /\ {r.file_path : r \in FilesOf(db, h)} = paths
             /\ Cardinality(FilesOf(db, h)) = Cardinality(paths)
    /\ \A h \in Hashes :
         (\A i \in 1..Len(flushed) : flushed[i].commit.hash # h) =>
            FilesOf(db, h) = FilesOf(db0, h)

\* C9 witness: hash A was stored with a.txt and b.txt, the run ingested
\* it with a.txt alone, and one row is left for it
C9_Witness ==
  /\ outcome = "completed"
  /\ {r.file_path : r \in FilesOf(db0, HashA)} = {ATxt, BTxt}
  /\ \E i \in LastFlushes :
       /\ flushed[i].commit.hash = HashA
       /\ {flushed[i].rows[k][2] : k \in 1..Len(flushed[i].rows)} = {ATxt}
  /\ Cardinality(FilesOf(db, HashA)) = 1
  /\ FilesOf(db, HashC) # {}

\* C10 as stated: the command exits with a non-zero status when the
\* path is not a repository, when DB_URL is missing, when git cannot be
\* launched and when a storage error occurs in schema creation or a flush.
C10_Stated ==
  (pc = "exited" /\ outcome \in {"not_a_repo", "no_db_url", "launch_error",
                                 "schema_error", "storage_error"}) =>
    exit_status # Some(0)

(* ------------------------------------------------------------------ *)
(* The dashboard reading the store while the ingestor runs            *)
(* ------------------------------------------------------------------ *)

\* what a query on another connection is shown: committed rows only
Visible(durable, working) == durable

\* run_query: one SELECT over commits joined with commit_files, on a
\* connection of its own
Read ==
  /\ seen' = Some(Visible(db, tx))
  /\ UNCHANGED <<pc, run, stream, pos, parts, caller, idx, current, file_rows, headers_seen,
                 commits_written, files_written, db, tx, schema_ready, exit_status, outcome,
                 ret, db0, snap, flushed>>

\* one run of the ingestor with the dashboard querying at any moment
NextRead ==
  \/ \E is_repo \in BOOLEAN : CheckRepo(is_repo)
  \/ \E has_url \in BOOLEAN : GetEngine(has_url)
  \/ \E ok \in BOOLEAN : EnsureSchema(ok)
  \/ \E ok \in BOOLEAN : Popen(ok)
  \/ ReadLine
  \/ EndOfInput
  \/ FlushUpsert
  \/ FlushDelete
  \/ FlushInsert
  \/ FlushReturn
  \/ StorageError
  \/ Commit
  \/ \E code \in GitExitCodes : Wait(code)
  \/ Read

SpecRead == Init /\ [][NextRead]_vars

\* C11 as stated: whatever the dashboard reads shows, for every hash,
\* either the commit row and file rows from before the run's flush of it or
\* the commit row and the complete file rows of a flush, and never a commit
\* row whose totals disagree with the file rows read with it.
C11_Stated ==
  seen # None =>
    /\ \A h \in Hashes :
         \/ CommitsOf(seen[1], h) = CommitsOf(db0, h) /\ FilesOf(seen[1], h) = FilesOf(db0, h)
         \/ \E i \in 1..Len(flushed) :
              /\ flushed[i].commit.hash = h
              /\ CommitsOf(seen[1], h) = {flushed[i].commit}
              /\ FilesOf(seen[1], h) = RowsOfFlush(flushed[i])
    /\ \A r \in seen[1].commits :
         /\ r.additions = SumAdditions(FilesOf(seen[1], r.hash))
         /\ r.deletions = SumDeletions(FilesOf(seen[1], r.hash))
         /\ r.files_changed = Cardinality(FilesOf(seen[1], r.hash))

\* the steps of the setup, in the order the code takes them
SetupStages == {"main", "get_engine", "ensure_schema", "popen"}

\* the fatal errors of the setup
SetupFailures == {"not_a_repo", "no_db_url", "schema_error", "launch_error"}

\* the successions of positions of a run
PcOrder ==
  {<<"main", "get_engine">>, <<"get_engine", "ensure_schema">>,
   <<"ensure_schema", "popen">>, <<"popen", "loop">>,
   <<"loop", "upsert">>, <<"loop", "commit">>, <<"upsert", "delete">>,
   <<"delete", "insert">>, <<"insert", "loop">>, <<"insert", "commit">>,
   <<"commit", "wait">>, <<"wait", "exited">>, <<"exited", "main">>}
    \cup {<<p, "exited">> : p \in {"main", "get_engine", "ensure_schema", "popen", "loop",
                                   "upsert", "delete", "insert", "commit"}}

\* C12: every run goes repository check, configuration, schema, tool
\* launch, line processing, in that order; while it is in the setup, and
\* when it has ended on a fatal setup error, no row has been written (the
\* store and the connection hold what the store held when the run began),
\* and rows are written only once the schema step has completed.
C12_SetupBeforeWrites ==
  [][/\ pc' # pc => <<pc, pc'>> \in PcOrder
     /\ (pc' \in SetupStages \/ outcome' \in SetupFailures) =>
          (tx' = db0' /\ db' = db0' /\ flushed' = <<>> /\ commits_written' = 0)
     /\ (tx' # db0' \/ db' # db0') => schema_ready']_vars

\* C12 witness: git could not be launched, after the schema step had
\* completed on an empty store, and the store is as it was
C12_Witness ==
  /\ pc = "exited"
  /\ outcome = "launch_error"
  /\ schema_ready
  /\ db0 = EmptyStore
  /\ db = db0

\* C13: from an empty store, the stream of the header (40 x a, Alice,
\* "Fix bug in parser") and the numstat line 3 / 1 / parser.py ends with
\* one commit row with additions 3, deletions 1, files_changed 1, is_fix 1,
\* error_tags "bug,fix", and the one file row (hash, parser.py, 3, 1).
C13_EndToEnd ==
  (/\ run = 1
   /\ outcome = "completed"
   /\ db0 = EmptyStore
   /\ stream = <<HeaderA, NumstatParser>>) =>
    /\ db.commits =
         {[hash |-> HashA, author_name |-> Alice, author_email |-> AliceMail,
           authored_at |-> Jan1, message |-> FixBugInParser, additions |-> 3,
           deletions |-> 1, files_changed |-> 1, is_fix |-> 1,
           error_tags |-> Some(<<"b", "u", "g", ",", "f", "i", "x">>)]}
    /\ db.commit_files =
         {[commit_hash |-> HashA, file_path |-> ParserPy, additions |-> 3, deletions |-> 1]}

\* C13 witness: that run has completed
C13_Witness ==
  /\ run = 1
  /\ outcome = "completed"
  /\ db0 = EmptyStore
  /\ stream = <<HeaderA, NumstatParser>>
  /\ Cardinality(db.commits) = 1

\* the pieces of a string between its commas
RECURSIVE CommaSplit(_)
CommaSplit(s) ==
  IF \A k \in 1..Len(s) : s[k] # "," THEN <<s>>
  ELSE LET i == CHOOSE i \in 1..Len(s) : s[i] = "," /\ \A j \in 1..(i - 1) : s[j] # ","
       IN  <<SubSeq(s, 1, i - 1)>> \o CommaSplit(SubSeq(s, i + 1, Len(s)))

\* C14: for every written commit, is_fix is 1 exactly when its subject
\* holds a keyword and exactly when error_tags is not null; error_tags,
\* when not null, is a comma-joined list of lower-case keywords in strictly
\* ascending order (sorted, no keyword twice) whose set is the set of
\* keywords matched in the subject.
C14_FixFlagAndTags ==
  \A r \in tx.commits :
    /\ r.is_fix \in {0, 1}
    /\ r.is_fix = 1 <=> WholeWordTags(r.message) # {}
    /\ r.is_fix = 1 <=> r.error_tags # None
    /\ r.error_tags # None =>
         LET list == CommaSplit(r.error_tags[1])
         IN  /\ Range(list) = WholeWordTags(r.message)
             /\ \A k \in 1..(Len(list) - 1) : StrLess(list[k], list[k + 1])

\* C14 witness: the subject "fix BUG" is stored with the tags "bug,fix"
C14_Witness ==
  \E r \in db.commits :
    /\ r.message = <<"f", "i", "x", " ", "B", "U", "G">>
    /\ r.error_tags = Some(<<"b", "u", "g", ",", "f", "i", "x">>)
    /\ r.is_fix = 1

\* C15: when the run has waited for git, whatever exit code git
\* returned, every commit flushed while reading its output is in the
\* store, with its file rows.
C15_ExitCodeKeepsCommits ==
  ret # None =>
    \A i \in LastFlushes :
      /\ flushed[i].commit \in db.commits
      /\ RowsOfFlush(flushed[i]) \subseteq db.commit_files

\* C15 witness: git returned 128 after a commit with a file row was
\* flushed
C15_Witness ==
  /\ ret = Some(128)
  /\ flushed # <<>>
  /\ \E i \in LastFlushes : RowsOfFlush(flushed[i]) # {}
  /\ db # db0

RECURSIVE HeadersUpTo(_)
\* the positions of the header lines among the first n lines, ascending
HeadersUpTo(n) ==
  IF n = 0 THEN <<>>
  ELSE HeadersUpTo(n - 1) \o (IF IsHeader(Parts(stream[n])) THEN <<n>> ELSE <<>>)

RECURSIVE NumstatRows(_, _, _)
\* the file rows of the 3-field lines at positions a..b, in stream order,
\* under the hash of the header that precedes them
NumstatRows(hash, a, b) ==
  IF a > b THEN <<>>
  ELSE LET p == Parts(stream[a])
       IN  (IF Len(p) = NumstatParts
              THEN <<<<hash, p[3], CountValue(p[1]), CountValue(p[2])>>>>
              ELSE <<>>) \o NumstatRows(hash, a + 1, b)

RECURSIVE SumColumn(_, _)
\* the sum of column k of a sequence of tuples
SumColumn(rows, k) ==
  IF rows = <<>> THEN 0 ELSE Head(rows)[k] + SumColumn(Tail(rows), k)

\* the run is between two line-processing steps or past the last one
BetweenLines == pc \in {"loop", "commit", "wait"} \/ outcome = "completed"

\* C16: between two line-processing steps, the commits flushed so far are
\* the headers read so far except the pending one, in stream order, each
\* written (its row is on the connection) with exactly the file rows of
\* the 3-field lines between its own header and the next header; the
\* pending commit is the one of the last header read, its buffer holds
\* exactly the 3-field lines read since that header, and its totals are
\* those of that buffer: zero, with an empty buffer, right after the
\* header line.
C16_FlushBeforeNewPending ==
  BetweenLines =>
    LET H == HeadersUpTo(pos)
        n == Len(H)
        done == IF current = None THEN n ELSE n - 1
        HashAt(k) == Parts(stream[H[k]])[1]
    IN  /\ pc = "loop" => (current # None <=> n > 0)
        /\ pc # "loop" => current = None
        /\ Len(flushed) = done
        /\ \A k \in 1..done :
             /\ flushed[k].commit.hash = HashAt(k)
             /\ flushed[k].commit.message = Parts(stream[H[k]])[5]
             /\ flushed[k].rows =
                  NumstatRows(HashAt(k), H[k] + 1, IF k < n THEN H[k + 1] - 1 ELSE pos)
             /\ HashAt(k) \in {r.hash : r \in tx.commits}
        /\ current # None =>
             /\ current[1].hash = HashAt(n)
             /\ file_rows = NumstatRows(HashAt(n), H[n] + 1, pos)
             /\ current[1].additions = SumColumn(file_rows, 3)
             /\ current[1].deletions = SumColumn(file_rows, 4)
             /\ current[1].files_changed = Len(file_rows)
             /\ H[n] = pos => current[1] = NewCommit(Parts(stream[pos])) /\ file_rows = <<>>

\* C16 witness: a header arrived while a commit with a file row was
\* pending; that commit has been flushed with its row and the new
\* pending commit, of another hash, has zero totals and an empty buffer
C16_Witness ==
  /\ pc = "loop"
  /\ Len(flushed) = 1
  /\ Len(flushed[1].rows) = 1
  /\ current # None
  /\ current[1].hash # flushed[1].commit.hash
  /\ current[1].files_changed = 0
  /\ file_rows = <<>>

\* the hashes of the commit rows of a store
CommitHashes(st) == {r.hash : r \in st.commits}

\* C17: a run that has ended without a setup or storage failure has no
\* pending commit, and every header line it read is a commit row of the
\* store.
C17_Stated ==
  (pc = "exited" /\ outcome \notin SetupFailures \cup {"storage_error"}) =>
    /\ current = None
    /\ \A i \in 1..pos :
         IsHeader(Parts(stream[i])) => Parts(stream[i])[1] \in CommitHashes(db)

\* the line has the shape of a header as the code tests it: at least five
\* fields, the first of 40 characters
HeaderShape(line) == FieldCount(line) >= HeaderParts /\ FirstFieldLen(line) = HashLen

\* the line has the shape of a numstat line: three fields
NumstatShape(line) == FieldCount(line) = NumstatParts

\* C18: a step that reads a blank line, a line of neither shape, or a
\* 3-field line while no commit is pending leaves the pending commit, the
\* buffer, the counters, the flushes and the store as they were, and the
\* run goes on in the loop.
C18_IgnoredLinesFrame ==
  [][(/\ ReadsLine
      /\ \/ LineRead = BlankLine
         \/ ~HeaderShape(LineRead) /\ ~NumstatShape(LineRead)
         \/ NumstatShape(LineRead) /\ ~HeaderShape(LineRead) /\ current = None) =>
       /\ UNCHANGED <<parser, store, outcome, exit_status>>
       /\ pc' = "loop"]_vars

\* C18 witness: a 3-field line was read with no commit pending, then a
\* header, then a 5-field line with a 39-character first field while
\* that header's commit was pending; the pending commit is untouched
C18_Witness ==
  /\ pc = "loop"
  /\ pos = 3
  /\ stream = <<NumstatParser, HeaderA, ShortHashLine>>
  /\ current = Some(NewCommit(Parts(HeaderA)))
  /\ file_rows = <<>>
  /\ headers_seen = 1
  /\ commits_written = 0
  /\ tx = db0

\* C19: between two line-processing steps, commits_written is
\* headers_seen minus the pending commit, if there is one, headers_seen
\* is the number of header lines read, and a completed run has
\* commits_written = headers_seen.
C19_CountersAgree ==
  /\ BetweenLines =>
       /\ commits_written = headers_seen - (IF current = None THEN 0 ELSE 1)
       /\ headers_seen = Len(HeadersUpTo(pos))
       /\ commits_written = Len(flushed)
  /\ outcome = "completed" => commits_written = headers_seen

\* C19 witness: a completed run that read two headers and wrote two
\* commits
C19_Witness ==
  /\ outcome = "completed"
  /\ headers_seen = 2
  /\ commits_written = 2

\* every file row of the store has a commit row of its hash
RefIntegrity(st) == \A f \in st.commit_files : f.commit_hash \in CommitHashes(st)

\* C20: in the committed store and on the ingestor's connection, every
\* commit_files row has a commits row of its commit_hash, and every
\* commit the store held when the run began is still there.
C20_FileRowsHaveCommit ==
  /\ RefIntegrity(db)
  /\ RefIntegrity(tx)
  /\ CommitHashes(db0) \subseteq CommitHashes(db)
  /\ CommitHashes(db0) \subseteq CommitHashes(tx)

\* C20 witness: a run over a seeded store has committed a file row of a
\* commit the store did not hold
C20_Witness ==
  /\ db0 = SeededStore
  /\ \E f \in db.commit_files : f.commit_hash = HashB
  /\ HashB \in CommitHashes(db)

====
